---- MODULE Spec2Model ----
(***************************************************************************)
(* Model of bot/cogs/trivia.py: the Trivia cog of progphil-bot.             *)
(*                                                                         *)
(* The cog keeps a one-row configuration (channel_id, schedule) that the   *)
(* setup / schedule / channel commands write, and a one-minute loop that   *)
(* fetches a fact and posts it once a day at the configured time.          *)
(*                                                                         *)
(* Time is counted in whole minutes.  A datetime is the number of minutes  *)
(* since 00:00 of day 0, a date is a day number, a time-of-day is a number *)
(* of minutes in 0..1439.  Strings are sequences of one-character strings, *)
(* so that the regular expression of _check_time and the parse done by     *)
(* datetime.strptime are computed character by character.                  *)
(***************************************************************************)
EXTENDS Integers, Sequences, FiniteSets, TLC

VARIABLES
    phase,       \* "constructed" after __init__, "loaded" after cog_load
    now,         \* the UTC clock, in minutes since 00:00 of day 0
    tz,          \* what the host's local clock is ahead of UTC, in minutes
    build,       \* what response.json() raises in the installed requests
    db,          \* the persisted config row of TriviaDB, or None
    config,      \* self.config
    sent_today,  \* self.sent_today
    sent_date,   \* self.sent_date
    running,     \* the trivia_loop task is alive
    ticks,       \* iterations of trivia_loop that have returned or raised
    tick,        \* what the last iteration of trivia_loop did
    fire_time,   \* what _get_schedule returned when it was called alone
    reply,       \* what the last command did and answered
    fetches,     \* calls of requests.get so far
    errors,      \* times at which a fetch-error message was posted
    trivias,     \* times at which a trivia embed was posted
    fails,       \* consecutive iterations, up to now, that posted a non-200
    steady,      \* no schedule/channel command and no faulty input since load
    booted,      \* the trivias posted before the process last started
    procs,       \* the command invocations and where each is suspended
    inflight     \* the iterations of trivia_loop that have not returned yet

vars == <<phase, now, tz, build, db, config, sent_today, sent_date, running, ticks,
          tick, fire_time, reply, fetches, errors, trivias, fails, steady,
          booted, procs, inflight>>

-----------------------------------------------------------------------------
(* Bounds of the model. *)

MaxTicks == 3       \* iterations of the loop (and minutes of dead loop) in a run
MaxFetchFails == 2  \* consecutive non-200 answers of the content API
MaxDays == 1        \* days that pass while _get_schedule is called alone
MaxRounds == 2      \* iterations of the loop in a run with two commands

(* Program constants. *)

MinutesPerHour == 60
HoursPerDay == 24
OffsetHours == 8        \* timedelta(hours=8)
HttpOk == 200           \* response.status_code != 200

MinutesPerDay == HoursPerDay * MinutesPerHour

-----------------------------------------------------------------------------
(* Python values. *)

None == [type |-> "NoneType"]
PyBool(b) == [type |-> "bool", value |-> b]
ValueError == [type |-> "ValueError"]
PyTime(m) == [type |-> "time", minute |-> m]    \* datetime.time, in minutes
PyDate(d) == [type |-> "date", day |-> d]       \* datetime.date, a day number

\* [0-9]: the ASCII digits
Digits == {"0", "1", "2", "3", "4", "5", "6", "7", "8", "9"}

\* \d in a str pattern: every Unicode decimal digit (category Nd): 660
\* characters (Unicode 14, Python 3.11) in 66 runs of ten, each run the
\* digits zero to nine in order.
\* A character that is not ASCII is written by its code point.
DecimalRuns ==
    { <<"0", "1", "2", "3", "4",
        "5", "6", "7", "8", "9">>,
      <<"U+0660", "U+0661", "U+0662", "U+0663", "U+0664",
        "U+0665", "U+0666", "U+0667", "U+0668", "U+0669">>,
      <<"U+06F0", "U+06F1", "U+06F2", "U+06F3", "U+06F4",
        "U+06F5", "U+06F6", "U+06F7", "U+06F8", "U+06F9">>,
      <<"U+07C0", "U+07C1", "U+07C2", "U+07C3", "U+07C4",
        "U+07C5", "U+07C6", "U+07C7", "U+07C8", "U+07C9">>,
      <<"U+0966", "U+0967", "U+0968", "U+0969", "U+096A",
        "U+096B", "U+096C", "U+096D", "U+096E", "U+096F">>,
      <<"U+09E6", "U+09E7", "U+09E8", "U+09E9", "U+09EA",
        "U+09EB", "U+09EC", "U+09ED", "U+09EE", "U+09EF">>,
      <<"U+0A66", "U+0A67", "U+0A68", "U+0A69", "U+0A6A",
        "U+0A6B", "U+0A6C", "U+0A6D", "U+0A6E", "U+0A6F">>,
      <<"U+0AE6", "U+0AE7", "U+0AE8", "U+0AE9", "U+0AEA",
        "U+0AEB", "U+0AEC", "U+0AED", "U+0AEE", "U+0AEF">>,
      <<"U+0B66", "U+0B67", "U+0B68", "U+0B69", "U+0B6A",
        "U+0B6B", "U+0B6C", "U+0B6D", "U+0B6E", "U+0B6F">>,
      <<"U+0BE6", "U+0BE7", "U+0BE8", "U+0BE9", "U+0BEA",
        "U+0BEB", "U+0BEC", "U+0BED", "U+0BEE", "U+0BEF">>,
      <<"U+0C66", "U+0C67", "U+0C68", "U+0C69", "U+0C6A",
        "U+0C6B", "U+0C6C", "U+0C6D", "U+0C6E", "U+0C6F">>,
      <<"U+0CE6", "U+0CE7", "U+0CE8", "U+0CE9", "U+0CEA",
        "U+0CEB", "U+0CEC", "U+0CED", "U+0CEE", "U+0CEF">>,
      <<"U+0D66", "U+0D67", "U+0D68", "U+0D69", "U+0D6A",
        "U+0D6B", "U+0D6C", "U+0D6D", "U+0D6E", "U+0D6F">>,
      <<"U+0DE6", "U+0DE7", "U+0DE8", "U+0DE9", "U+0DEA",
        "U+0DEB", "U+0DEC", "U+0DED", "U+0DEE", "U+0DEF">>,
      <<"U+0E50", "U+0E51", "U+0E52", "U+0E53", "U+0E54",
        "U+0E55", "U+0E56", "U+0E57", "U+0E58", "U+0E59">>,
      <<"U+0ED0", "U+0ED1", "U+0ED2", "U+0ED3", "U+0ED4",
        "U+0ED5", "U+0ED6", "U+0ED7", "U+0ED8", "U+0ED9">>,
      <<"U+0F20", "U+0F21", "U+0F22", "U+0F23", "U+0F24",
        "U+0F25", "U+0F26", "U+0F27", "U+0F28", "U+0F29">>,
      <<"U+1040", "U+1041", "U+1042", "U+1043", "U+1044",
        "U+1045", "U+1046", "U+1047", "U+1048", "U+1049">>,
      <<"U+1090", "U+1091", "U+1092", "U+1093", "U+1094",
        "U+1095", "U+1096", "U+1097", "U+1098", "U+1099">>,
      <<"U+17E0", "U+17E1", "U+17E2", "U+17E3", "U+17E4",
        "U+17E5", "U+17E6", "U+17E7", "U+17E8", "U+17E9">>,
      <<"U+1810", "U+1811", "U+1812", "U+1813", "U+1814",
        "U+1815", "U+1816", "U+1817", "U+1818", "U+1819">>,
      <<"U+1946", "U+1947", "U+1948", "U+1949", "U+194A",
        "U+194B", "U+194C", "U+194D", "U+194E", "U+194F">>,
      <<"U+19D0", "U+19D1", "U+19D2", "U+19D3", "U+19D4",
        "U+19D5", "U+19D6", "U+19D7", "U+19D8", "U+19D9">>,
      <<"U+1A80", "U+1A81", "U+1A82", "U+1A83", "U+1A84",
        "U+1A85", "U+1A86", "U+1A87", "U+1A88", "U+1A89">>,
      <<"U+1A90", "U+1A91", "U+1A92", "U+1A93", "U+1A94",
        "U+1A95", "U+1A96", "U+1A97", "U+1A98", "U+1A99">>,
      <<"U+1B50", "U+1B51", "U+1B52", "U+1B53", "U+1B54",
        "U+1B55", "U+1B56", "U+1B57", "U+1B58", "U+1B59">>,
      <<"U+1BB0", "U+1BB1", "U+1BB2", "U+1BB3", "U+1BB4",
        "U+1BB5", "U+1BB6", "U+1BB7", "U+1BB8", "U+1BB9">>,
      <<"U+1C40", "U+1C41", "U+1C42", "U+1C43", "U+1C44",
        "U+1C45", "U+1C46", "U+1C47", "U+1C48", "U+1C49">>,
      <<"U+1C50", "U+1C51", "U+1C52", "U+1C53", "U+1C54",
        "U+1C55", "U+1C56", "U+1C57", "U+1C58", "U+1C59">>,
      <<"U+A620", "U+A621", "U+A622", "U+A623", "U+A624",
        "U+A625", "U+A626", "U+A627", "U+A628", "U+A629">>,
      <<"U+A8D0", "U+A8D1", "U+A8D2", "U+A8D3", "U+A8D4",
        "U+A8D5", "U+A8D6", "U+A8D7", "U+A8D8", "U+A8D9">>,
      <<"U+A900", "U+A901", "U+A902", "U+A903", "U+A904",
        "U+A905", "U+A906", "U+A907", "U+A908", "U+A909">>,
      <<"U+A9D0", "U+A9D1", "U+A9D2", "U+A9D3", "U+A9D4",
        "U+A9D5", "U+A9D6", "U+A9D7", "U+A9D8", "U+A9D9">>,
      <<"U+A9F0", "U+A9F1", "U+A9F2", "U+A9F3", "U+A9F4",
        "U+A9F5", "U+A9F6", "U+A9F7", "U+A9F8", "U+A9F9">>,
      <<"U+AA50", "U+AA51", "U+AA52", "U+AA53", "U+AA54",
        "U+AA55", "U+AA56", "U+AA57", "U+AA58", "U+AA59">>,
      <<"U+ABF0", "U+ABF1", "U+ABF2", "U+ABF3", "U+ABF4",
        "U+ABF5", "U+ABF6", "U+ABF7", "U+ABF8", "U+ABF9">>,
      <<"U+FF10", "U+FF11", "U+FF12", "U+FF13", "U+FF14",
        "U+FF15", "U+FF16", "U+FF17", "U+FF18", "U+FF19">>,
      <<"U+104A0", "U+104A1", "U+104A2", "U+104A3", "U+104A4",
        "U+104A5", "U+104A6", "U+104A7", "U+104A8", "U+104A9">>,
      <<"U+10D30", "U+10D31", "U+10D32", "U+10D33", "U+10D34",
        "U+10D35", "U+10D36", "U+10D37", "U+10D38", "U+10D39">>,
      <<"U+11066", "U+11067", "U+11068", "U+11069", "U+1106A",
        "U+1106B", "U+1106C", "U+1106D", "U+1106E", "U+1106F">>,
      <<"U+110F0", "U+110F1", "U+110F2", "U+110F3", "U+110F4",
        "U+110F5", "U+110F6", "U+110F7", "U+110F8", "U+110F9">>,
      <<"U+11136", "U+11137", "U+11138", "U+11139", "U+1113A",
        "U+1113B", "U+1113C", "U+1113D", "U+1113E", "U+1113F">>,
      <<"U+111D0", "U+111D1", "U+111D2", "U+111D3", "U+111D4",
        "U+111D5", "U+111D6", "U+111D7", "U+111D8", "U+111D9">>,
      <<"U+112F0", "U+112F1", "U+112F2", "U+112F3", "U+112F4",
        "U+112F5", "U+112F6", "U+112F7", "U+112F8", "U+112F9">>,
      <<"U+11450", "U+11451", "U+11452", "U+11453", "U+11454",
        "U+11455", "U+11456", "U+11457", "U+11458", "U+11459">>,
      <<"U+114D0", "U+114D1", "U+114D2", "U+114D3", "U+114D4",
        "U+114D5", "U+114D6", "U+114D7", "U+114D8", "U+114D9">>,
      <<"U+11650", "U+11651", "U+11652", "U+11653", "U+11654",
        "U+11655", "U+11656", "U+11657", "U+11658", "U+11659">>,
      <<"U+116C0", "U+116C1", "U+116C2", "U+116C3", "U+116C4",
        "U+116C5", "U+116C6", "U+116C7", "U+116C8", "U+116C9">>,
      <<"U+11730", "U+11731", "U+11732", "U+11733", "U+11734",
        "U+11735", "U+11736", "U+11737", "U+11738", "U+11739">>,
      <<"U+118E0", "U+118E1", "U+118E2", "U+118E3", "U+118E4",
        "U+118E5", "U+118E6", "U+118E7", "U+118E8", "U+118E9">>,
      <<"U+11950", "U+11951", "U+11952", "U+11953", "U+11954",
        "U+11955", "U+11956", "U+11957", "U+11958", "U+11959">>,
      <<"U+11C50", "U+11C51", "U+11C52", "U+11C53", "U+11C54",
        "U+11C55", "U+11C56", "U+11C57", "U+11C58", "U+11C59">>,
      <<"U+11D50", "U+11D51", "U+11D52", "U+11D53", "U+11D54",
        "U+11D55", "U+11D56", "U+11D57", "U+11D58", "U+11D59">>,
      <<"U+11DA0", "U+11DA1", "U+11DA2", "U+11DA3", "U+11DA4",
        "U+11DA5", "U+11DA6", "U+11DA7", "U+11DA8", "U+11DA9">>,
      <<"U+16A60", "U+16A61", "U+16A62", "U+16A63", "U+16A64",
        "U+16A65", "U+16A66", "U+16A67", "U+16A68", "U+16A69">>,
      <<"U+16AC0", "U+16AC1", "U+16AC2", "U+16AC3", "U+16AC4",
        "U+16AC5", "U+16AC6", "U+16AC7", "U+16AC8", "U+16AC9">>,
      <<"U+16B50", "U+16B51", "U+16B52", "U+16B53", "U+16B54",
        "U+16B55", "U+16B56", "U+16B57", "U+16B58", "U+16B59">>,
      <<"U+1D7CE", "U+1D7CF", "U+1D7D0", "U+1D7D1", "U+1D7D2",
        "U+1D7D3", "U+1D7D4", "U+1D7D5", "U+1D7D6", "U+1D7D7">>,
      <<"U+1D7D8", "U+1D7D9", "U+1D7DA", "U+1D7DB", "U+1D7DC",
        "U+1D7DD", "U+1D7DE", "U+1D7DF", "U+1D7E0", "U+1D7E1">>,
      <<"U+1D7E2", "U+1D7E3", "U+1D7E4", "U+1D7E5", "U+1D7E6",
        "U+1D7E7", "U+1D7E8", "U+1D7E9", "U+1D7EA", "U+1D7EB">>,
      <<"U+1D7EC", "U+1D7ED", "U+1D7EE", "U+1D7EF", "U+1D7F0",
        "U+1D7F1", "U+1D7F2", "U+1D7F3", "U+1D7F4", "U+1D7F5">>,
      <<"U+1D7F6", "U+1D7F7", "U+1D7F8", "U+1D7F9", "U+1D7FA",
        "U+1D7FB", "U+1D7FC", "U+1D7FD", "U+1D7FE", "U+1D7FF">>,
      <<"U+1E140", "U+1E141", "U+1E142", "U+1E143", "U+1E144",
        "U+1E145", "U+1E146", "U+1E147", "U+1E148", "U+1E149">>,
      <<"U+1E2F0", "U+1E2F1", "U+1E2F2", "U+1E2F3", "U+1E2F4",
        "U+1E2F5", "U+1E2F6", "U+1E2F7", "U+1E2F8", "U+1E2F9">>,
      <<"U+1E950", "U+1E951", "U+1E952", "U+1E953", "U+1E954",
        "U+1E955", "U+1E956", "U+1E957", "U+1E958", "U+1E959">>,
      <<"U+1FBF0", "U+1FBF1", "U+1FBF2", "U+1FBF3", "U+1FBF4",
        "U+1FBF5", "U+1FBF6", "U+1FBF7", "U+1FBF8", "U+1FBF9">> }

DecimalDigits == UNION {{run[i] : i \in 1..10} : run \in DecimalRuns}

\* int(): the value of a decimal digit, its place in its run
DigitVal(c) ==
    CHOOSE v \in 0..9 : \E run \in DecimalRuns : run[v + 1] = c

Drop(s, n) == SubSeq(s, n + 1, Len(s))

-----------------------------------------------------------------------------
(* _check_time: re.match(r'^([01]?[0-9]|2[0-3]):[0-5][0-9]$', time_string) *)

\* ([01]?[0-9]|2[0-3]) matching exactly the sequence h
HourGroup(h) ==
    \/ Len(h) = 1 /\ h[1] \in Digits
    \/ Len(h) = 2 /\ h[1] \in {"0", "1"} /\ h[2] \in Digits
    \/ Len(h) = 2 /\ h[1] = "2" /\ h[2] \in {"0", "1", "2", "3"}

\* $ matches at the end of the string and just before a final newline
AtDollar(rest) == rest = <<>> \/ rest = <<"\n">>

\* re.match(pattern, time_string): a match object, or None
ReMatch(s) ==
    IF \E k \in 1..2 :
          /\ Len(s) >= k + 3
          /\ HourGroup(SubSeq(s, 1, k))
          /\ s[k + 1] = ":"
          /\ s[k + 2] \in {"0", "1", "2", "3", "4", "5"}
          /\ s[k + 3] \in Digits
          /\ AtDollar(Drop(s, k + 3))
    THEN [type |-> "Match"]
    ELSE None

_check_time(time_string) == PyBool(ReMatch(time_string) # None)

-----------------------------------------------------------------------------
(* datetime.strptime(s, "%H:%M").time()                                    *)
(* %H is (2[0-3]|[0-1]\d|\d), %M is ([0-5]\d|\d), and the whole string has *)
(* to be consumed ("unconverted data remains" is a ValueError).            *)

DirectiveH(h) ==
    \/ Len(h) = 2 /\ h[1] = "2" /\ h[2] \in {"0", "1", "2", "3"}
    \/ Len(h) = 2 /\ h[1] \in {"0", "1"} /\ h[2] \in DecimalDigits
    \/ Len(h) = 1 /\ h[1] \in DecimalDigits

DirectiveM(m) ==
    \/ Len(m) = 2 /\ m[1] \in {"0", "1", "2", "3", "4", "5"}
                   /\ m[2] \in DecimalDigits
    \/ Len(m) = 1 /\ m[1] \in DecimalDigits

Number(d) == IF Len(d) = 1 THEN DigitVal(d[1])
             ELSE 10 * DigitVal(d[1]) + DigitVal(d[2])

StrptimeSplits(s) ==
    {k \in 1..2 : /\ Len(s) > k + 1
                  /\ DirectiveH(SubSeq(s, 1, k))
                  /\ s[k + 1] = ":"
                  /\ DirectiveM(Drop(s, k + 1))}

\* the time-of-day in minutes, or ValueError
Strptime(s) ==
    IF StrptimeSplits(s) = {} THEN ValueError
    ELSE LET k == CHOOSE k \in StrptimeSplits(s) : TRUE
         IN  PyTime(Number(SubSeq(s, 1, k)) * MinutesPerHour
                    + Number(Drop(s, k + 1)))

-----------------------------------------------------------------------------
(* The clocks. *)

DateOf(dt) == PyDate(dt \div MinutesPerDay)        \* datetime.date()
TimeOf(dt) == PyTime(dt % MinutesPerDay)           \* datetime.time()
Combine(date, t) == date.day * MinutesPerDay + t.minute    \* datetime.combine

Today == now + tz       \* datetime.today(): the host's local clock
UtcNow == now           \* datetime.utcnow()

\* line 62: schedule_with_day - timedelta(hours=8)
ToUtc(schedule_with_day) == schedule_with_day - OffsetHours * MinutesPerHour

\* _get_schedule: the time-of-day, or ValueError when strptime raises
_get_schedule ==
    IF config = None THEN PyTime(0)
    ELSE LET schedule_utc_plus_8 == Strptime(config.schedule)
         IN  IF schedule_utc_plus_8 = ValueError THEN ValueError
             ELSE LET schedule_with_day ==
                          Combine(DateOf(Today), schedule_utc_plus_8)
                  IN  TimeOf(ToUtc(schedule_with_day))

-----------------------------------------------------------------------------
(* The inputs of the model. *)

Channels == {1, 2}      \* channel.id

\* what the staff types as schedule
Schedules ==
    { <<"0", "9", ":", "0", "0">>,      \* 09:00, fires at 01:00 UTC
      <<"0", "8", ":", "0", "0">>,      \* 08:00, fires at 00:00 UTC
      <<"0", "7", ":", "5", "9">>,      \* 07:59, fires at 23:59 UTC
      <<"2", "4", ":", "0", "0">>,      \* 24:00
      <<"9", ":", "5">>,                \* 9:5
      <<"a", "b", "c">>,                \* abc
      <<"0", "U+0669", ":", "0", "0">> } \* 0 U+0669 :00, ARABIC-INDIC DIGIT NINE

\* the UTC times of day at which the cog may be loaded
StartTimes == {58, 958, 1438}     \* 00:58, 15:58, 23:58

\* the host's time zone: UTC, UTC+8 or UTC-5
HostOffsets == {0, 480, -300}

\* the command invocations of a run, each issued once: one, or two that
\* may be in progress together
OneSlot == {1}
TwoSlots == {1, 2}

\* the inputs of the runs with two commands in progress together
AsyncSchedules == { <<"0", "9", ":", "0", "0">>, <<"0", "8", ":", "0", "0">> }
AsyncStartTimes == {59}     \* 00:59
AsyncOffsets == {0}

FirstDay == 1

Row(channel_id, schedule) == [channel_id |-> channel_id, schedule |-> schedule]

\* the rows a former run of the bot may have left in the table
StoredRows == {None, Row(1, <<"0", "9", ":", "0", "0">>)}

-----------------------------------------------------------------------------
(* TriviaDB (database/trivia.py): one row, inserted once, read, updated.   *)

DbInsert(row, channel_id, schedule) ==
    IF row = None THEN Row(channel_id, schedule) ELSE row

DbUpdate(row, channel_id, schedule) ==
    IF row = None THEN None ELSE Row(channel_id, schedule)

DbGetConfig(row) == row

-----------------------------------------------------------------------------
(* __init__ and cog_load *)

\* what response.json() raises on a body that is no JSON: an OSError
\* (requests.exceptions.JSONDecodeError, requests 2.27 and later) or a plain
\* ValueError (json.JSONDecodeError, before)
JsonErrors == {"OSError", "ValueError"}

NoTick == [outcome |-> "none", flag |-> FALSE]
NoReply == [cmd |-> "none", msg |-> "none", write |-> "none"]

\* a command invocation that has not been issued: the command, the
\* arguments of its database write, what the database wrote for it, what
\* db.get_config returned to it and what it answered
IdleProc == [pc |-> "idle", cmd |-> "none", args |-> None, wrote |-> "none",
             got |-> None, msg |-> "none"]

\* the command invocations of the run
Slots == DOMAIN procs

\* what __init__ leaves, with the clock, the host and the stored row given
Constructed(starts, offsets, slots) ==
    /\ phase = "constructed"
    /\ now \in {Combine(PyDate(FirstDay), PyTime(t)) : t \in starts}
    /\ tz \in offsets
    /\ build \in JsonErrors
    /\ db \in StoredRows
    /\ config = None
    /\ sent_today = FALSE
    /\ sent_date = None
    /\ running = FALSE
    /\ ticks = 0
    /\ tick = NoTick
    /\ fire_time = None
    /\ reply = NoReply
    /\ fetches = 0
    /\ errors = {}
    /\ trivias = {}
    /\ fails = 0
    /\ steady = TRUE
    /\ booted = {}
    /\ procs = [p \in slots |-> IdleProc]
    /\ inflight = << >>

Init == Constructed(StartTimes, HostOffsets, OneSlot)

cog_load ==
    /\ phase = "constructed"
    /\ phase' = "loaded"
    /\ config' = DbGetConfig(db)
    /\ running' = TRUE
    /\ UNCHANGED <<now, tz, build, db, sent_today, sent_date, ticks, tick,
                   fire_time,
                   reply, fetches, errors, trivias, fails, steady, booted,
                   procs, inflight>>

-----------------------------------------------------------------------------
(* The coroutines of the cog.  A coroutine runs until it awaits and the    *)
(* other coroutines of the event loop run in between.  A command is        *)
(* suspended at db.insert or db.update, then at db.get_config; an          *)
(* iteration of trivia_loop is suspended at trivia_channel.send.           *)
(* requests.get is an ordinary call: until it returns, the thread of the   *)
(* event loop runs nothing else.                                           *)

\* lines 92-97: an iteration is inside requests.get
Blocked == \E i \in 1 .. Len(inflight) : inflight[i].pc = "fetching"

\* the event loop can run a coroutine of the cog
Runs == phase = "loaded" /\ ~Blocked

-----------------------------------------------------------------------------
(* The commands.  Each answers the interaction with one message, or       *)
(* raises and answers nothing.                                             *)

Answer(cmd, msg, write) == [cmd |-> cmd, msg |-> msg, write |-> write]

IsNone(v) == v = None

\* "if self._check_time(schedule) is None": the guard of the
\* "Please enter a correct time" answer
BadTime(schedule) == IsNone(_check_time(schedule))

\* a command at its first database call, the arguments already evaluated
Suspended(cmd, args) ==
    [pc |-> "write", cmd |-> cmd, args |-> args, wrote |-> "none",
     got |-> None, msg |-> "none"]

\* a command that ended without a database call
Answered(cmd, msg) ==
    [pc |-> "done", cmd |-> cmd, args |-> None, wrote |-> "none",
     got |-> None, msg |-> msg]

\* the invocation has not been issued
Free(p) == procs[p].pc = "idle"

CommandFrame == UNCHANGED <<phase, now, tz, build, sent_today, sent_date, running,
                            ticks, tick, fire_time, fetches, errors, trivias,
                            fails, booted, inflight>>

\* the guard of setup left out
AlreadySetup_Unguarded == FALSE

\* line 234: "if self.config is not None"
AlreadySetup == ~IsNone(config)

\* lines 234-247: setup up to "await self.db.insert("
setup_begins(p, new_channel, new_schedule) ==
    /\ Runs
    /\ Free(p)
    /\ IF AlreadySetup
       THEN /\ procs' = [procs EXCEPT ![p] = Answered("setup", "already_setup")]
            /\ reply' = Answer("setup", "already_setup", "none")
       ELSE IF BadTime(new_schedule)
       THEN /\ procs' = [procs EXCEPT ![p] = Answered("setup", "bad_time")]
            /\ reply' = Answer("setup", "bad_time", "none")
       ELSE /\ procs' = [procs EXCEPT ![p] =
                            Suspended("setup", Row(new_channel, new_schedule))]
            /\ UNCHANGED reply
    /\ UNCHANGED <<db, config, steady>>
    /\ CommandFrame

\* lines 148-151: the arguments of db.update in the schedule command
ScheduleUpdate(new_schedule) == Row(config.channel_id, new_schedule)

\* lines 135-148: schedule up to "await self.db.update("
schedule_begins(p, new_schedule) ==
    /\ Runs
    /\ Free(p)
    /\ IF IsNone(config)
       THEN /\ procs' = [procs EXCEPT ![p] = Answered("schedule", "setup_first")]
            /\ reply' = Answer("schedule", "setup_first", "none")
            /\ UNCHANGED steady
       ELSE IF BadTime(new_schedule)
       THEN /\ procs' = [procs EXCEPT ![p] = Answered("schedule", "bad_time")]
            /\ reply' = Answer("schedule", "bad_time", "none")
            /\ UNCHANGED steady
       ELSE /\ procs' = [procs EXCEPT ![p] =
                            Suspended("schedule", ScheduleUpdate(new_schedule))]
            /\ steady' = FALSE
            /\ UNCHANGED reply
    /\ UNCHANGED <<db, config>>
    /\ CommandFrame

\* lines 210-213: the arguments of db.update in the channel command
ChannelUpdate(new_channel) == Row(new_channel, config.schedule)

\* lines 204-210: channel up to "await self.db.update("
channel_begins(p, new_channel) ==
    /\ Runs
    /\ Free(p)
    /\ IF IsNone(config)
       THEN /\ procs' = [procs EXCEPT ![p] = Answered("channel", "setup_first")]
            /\ reply' = Answer("channel", "setup_first", "none")
            /\ UNCHANGED steady
       ELSE /\ procs' = [procs EXCEPT ![p] =
                            Suspended("channel", ChannelUpdate(new_channel))]
            /\ steady' = FALSE
            /\ UNCHANGED reply
    /\ UNCHANGED <<db, config>>
    /\ CommandFrame

\* self.bot.get_channel(...): a channel, or None when the bot does not
\* know the id
Resolutions == {"channel", "none"}

\* lines 169-191: the config command (Trivia.config), which has no database
\* call; ".mention" of None is an AttributeError and nothing is answered
get_config(p, chan) ==
    /\ Runs
    /\ Free(p)
    /\ LET msg == IF IsNone(config) THEN "setup_first"
                  ELSE IF chan = "none" THEN "attribute_error"
                  ELSE "config_embed"
       IN  /\ procs' = [procs EXCEPT ![p] = Answered("config", msg)]
           /\ reply' = Answer("config", msg, "none")
    /\ UNCHANGED <<db, config, steady>>
    /\ CommandFrame

\* db.insert (line 247) or db.update (lines 148, 210) is done; the command
\* goes on to "await self.db.get_config()"
db_writes(p) ==
    /\ Runs
    /\ procs[p].pc = "write"
    /\ LET a == procs[p].args
           inserting == procs[p].cmd = "setup"
       IN  /\ db' = IF inserting THEN DbInsert(db, a.channel_id, a.schedule)
                     ELSE DbUpdate(db, a.channel_id, a.schedule)
           /\ procs' = [procs EXCEPT
                           ![p].pc = "read",
                           ![p].wrote = IF inserting THEN "insert" ELSE "update"]
    /\ UNCHANGED <<config, reply, steady>>
    /\ CommandFrame

\* db.get_config (lines 153, 215, 252) reads the row
db_reads(p) ==
    /\ Runs
    /\ procs[p].pc = "read"
    /\ procs' = [procs EXCEPT ![p].pc = "assign", ![p].got = DbGetConfig(db)]
    /\ UNCHANGED <<db, config, reply, steady>>
    /\ CommandFrame

\* self.config assigned nothing
Published_Unset(got) == None

\* lines 153, 215, 252: what "self.config = await ..." assigns
Published(got) == got

\* the command resumes: "self.config = ..." and the answer
assigns(p) ==
    /\ Runs
    /\ procs[p].pc = "assign"
    /\ config' = Published(procs[p].got)
    /\ LET msg == CASE procs[p].cmd = "setup" -> "trivia_setup"
                    [] procs[p].cmd = "schedule" -> "scheduled"
                    [] OTHER -> "channel_set"
       IN  /\ procs' = [procs EXCEPT ![p].pc = "done", ![p].got = None,
                                     ![p].msg = msg]
           /\ reply' = Answer(procs[p].cmd, msg, procs[p].wrote)
    /\ UNCHANGED <<db, steady>>
    /\ CommandFrame

-----------------------------------------------------------------------------
(* trivia_loop: one iteration, run by tasks.loop(minutes=1).               *)

\* what the iteration is given by its collaborators
Response(status_code) == [type |-> "Response", status_code |-> status_code]
ConnectionError == [type |-> "ConnectionError"]
Fetches == {ConnectionError, Response(200), Response(500)}  \* requests.get(...)
\* response.json(): a list with a fact; a value of another shape; a body
\* that is no JSON
Payloads == {"fact", "malformed", "not_json"}
\* trivia_channel.send(...): returns; raises a discord.HTTPException;
\* raises an OSError, the connection lost
Deliveries == {"delivered", "raises", "dropped"}
\* minutes of the clock that pass from the guards to line 118
SendMinutes == {0, 1}

\* the answers of the content API that an iteration can tell apart
Answers ==
    {a \in [fetch : Fetches, payload : Payloads] :
        a.fetch # Response(200) => a.payload = "fact"}

\* the ends of a send that an iteration can tell apart
Sends ==
    {d \in [deliver : Deliveries, took : SendMinutes] :
        d.deliver # "delivered" => d.took = 0}

\* the guard of the loop left out
LoopUnset_Unguarded == FALSE

\* line 72: "if self.config is None"
LoopUnset == config = None

\* lines 76-78: sent_today after the comparison of the dates
Rollover == IF DateOf(Today) # sent_date THEN FALSE ELSE sent_today

\* line 80: "if not datetime.utcnow().time() >= self._get_schedule()"
TooEarly(fire) == ~(TimeOf(UtcNow).minute >= fire.minute)

\* the guard left out
AlreadySent_Never(flag) == FALSE

\* line 84: "if self.sent_today"
AlreadySent(flag) == flag

\* the status check left out
FetchFailed_Unchecked(response) == FALSE

\* line 99: "if response.status_code != 200"
FetchFailed(response) == response.status_code # HttpOk

\* line 118: self.sent_date = datetime.today().date(), read when the send
\* has returned
SendDate(took) == DateOf(Today + took)

\* lines 72-90: what the guards decide, and sent_today as they leave it
Guards ==
    IF LoopUnset
    THEN [outcome |-> "unset", flag |-> sent_today]
    ELSE LET flag == Rollover
             fire == _get_schedule
         IN  IF fire = ValueError
             THEN [outcome |-> "bad_schedule", flag |-> flag]
             ELSE IF TooEarly(fire)
             THEN [outcome |-> "early", flag |-> flag]
             ELSE IF AlreadySent(flag)
             THEN [outcome |-> "already", flag |-> flag]
             ELSE IF config = None
             THEN \* line 89: self.config["channel_id"] of None is a TypeError
                  [outcome |-> "type_error", flag |-> flag]
             ELSE [outcome |-> "fetching", flag |-> flag]

\* the outcomes that are an exception tasks.loop does not retry: the task
\* ends.  A requests exception is an OSError: tasks.loop waits and retries.
Raises(outcome) ==
    outcome \in {"bad_schedule", "type_error", "bad_payload", "undelivered",
                 "error_undelivered"}

Faulty(outcome) ==
    outcome \in {"bad_schedule", "fetch_raised", "json_raised",
                 "error_undelivered", "fetch_error", "bad_payload",
                 "undelivered", "send_raised"}

\* the iteration returns or raises
Returned(outcome, flag) ==
    /\ tick' = [outcome |-> outcome, flag |-> flag]
    /\ running' = ~Raises(outcome)
    /\ ticks' = ticks + 1
    /\ now' = now + 1
    /\ steady' = (steady /\ ~Faulty(outcome))

\* line 66: trivia_loop is handed to tasks.loop of discord.ext, whose code
\* is not part of the repository.  Its task awaits one call of trivia_loop
\* before it makes the next: one tick runs to completion or failure before
\* the next is considered.
LoopFree == inflight = << >>

\* an iteration inside requests.get: sent_today as the guards left it, the
\* channel of line 88, the status code of the answer, what it is about to
\* post, and the channel_id (line 89) and schedule (line 55) it read from
\* self.config
Flight(flag, chan) ==
    [pc |-> "fetching", flag |-> flag, chan |-> chan, status |-> 0,
     post |-> "none", used |-> Row(config.channel_id, config.schedule)]

Remove(seq, i) == SubSeq(seq, 1, i - 1) \o SubSeq(seq, i + 1, Len(seq))

\* lines 72-97: the guards, get_channel and the call of requests.get
loop_begins(chan, rounds) ==
    /\ Runs
    /\ running
    /\ LoopFree
    /\ ticks + Len(inflight) < rounds
    /\ LET g == Guards
       IN  /\ sent_today' = g.flag
           /\ IF g.outcome = "fetching"
              THEN /\ inflight' = Append(inflight, Flight(g.flag, chan))
                   /\ tick' = [outcome |-> "fetching", flag |-> g.flag]
                   /\ fetches' = fetches + 1
                   \* the run of non-200 answers, if the last iteration
                   \* lengthened it
                   /\ fails' = IF tick.outcome = "fetch_error" THEN fails ELSE 0
                   /\ UNCHANGED <<running, ticks, now, steady>>
              ELSE /\ Returned(g.outcome, g.flag)
                   /\ fails' = 0
                   /\ UNCHANGED <<inflight, fetches>>
    /\ UNCHANGED <<phase, tz, build, db, config, sent_date, fire_time, reply, errors,
                   trivias, booted, procs>>

\* lines 92-115: what the iteration does with the answer, up to its await
AfterFetch(f, a) ==
    IF a.fetch = ConnectionError THEN "fetch_raised"
    ELSE IF FetchFailed(a.fetch)
    THEN IF f.chan = "none" THEN "error_undelivered" ELSE "send_error"
    ELSE IF a.payload = "not_json"
    THEN IF build = "OSError" THEN "json_raised" ELSE "bad_payload"
    ELSE IF a.payload = "malformed" THEN "bad_payload"
    ELSE IF f.chan = "none" THEN "undelivered"
    ELSE "send_trivia"

\* requests.get returns or raises, and the iteration runs to
\* "await trivia_channel.send(" or to its end
fetch_returns(i, a) ==
    /\ phase = "loaded"
    /\ i \in 1 .. Len(inflight)
    /\ inflight[i].pc = "fetching"
    /\ (a.fetch # ConnectionError /\ a.fetch.status_code # HttpOk)
          => fails < MaxFetchFails
    /\ LET f == inflight[i]
           next == AfterFetch(f, a)
       IN  IF next \in {"send_error", "send_trivia"}
           THEN /\ inflight' = [inflight EXCEPT
                                  ![i].pc = "sending",
                                  ![i].status = a.fetch.status_code,
                                  ![i].post = IF next = "send_error"
                                              THEN "error" ELSE "trivia"]
                /\ UNCHANGED <<tick, running, ticks, now, steady, fails>>
           ELSE /\ Returned(next, f.flag)
                /\ inflight' = Remove(inflight, i)
                /\ fails' = 0
    /\ UNCHANGED <<phase, tz, build, db, config, sent_today, sent_date, fire_time,
                   reply, fetches, errors, trivias, booted, procs>>

\* lines 100-103, 115-118: what the iteration has done when the send ended
AfterSend(f, d) ==
    IF d.deliver = "dropped" THEN "send_raised"
    ELSE IF d.deliver = "raises"
    THEN IF f.post = "error" THEN "error_undelivered" ELSE "undelivered"
    ELSE IF f.post = "error" THEN "fetch_error" ELSE "sent"

\* trivia_channel.send returns or raises, and the iteration runs to its end
send_returns(i, d) ==
    /\ Runs
    /\ i \in 1 .. Len(inflight)
    /\ inflight[i].pc = "sending"
    /\ LET f == inflight[i]
           outcome == AfterSend(f, d)
       IN  /\ Returned(outcome, f.flag)
           /\ errors' = IF outcome = "fetch_error" THEN errors \cup {now}
                        ELSE errors
           /\ trivias' = IF outcome = "sent" THEN trivias \cup {now}
                         ELSE trivias
           /\ sent_today' = IF outcome = "sent" THEN TRUE ELSE sent_today
           /\ sent_date' = IF outcome = "sent" THEN SendDate(d.took)
                           ELSE sent_date
           /\ fails' = IF d.deliver # "delivered" THEN 0
                       ELSE IF f.status # HttpOk THEN fails + 1 ELSE fails
    /\ inflight' = Remove(inflight, i)
    /\ UNCHANGED <<phase, tz, build, db, config, fire_time, reply, fetches, booted,
                   procs>>

\* a minute passes with the task ended: nothing runs
minute_passes(rounds) ==
    /\ phase = "loaded"
    /\ ~running
    /\ inflight = << >>
    /\ ticks < rounds
    /\ ticks' = ticks + 1
    /\ now' = now + 1
    /\ UNCHANGED <<phase, tz, build, db, config, sent_today, sent_date, running, tick,
                   fire_time, reply, fetches, errors, trivias, fails, steady,
                   booted, procs, inflight>>

-----------------------------------------------------------------------------

\* a command is issued and runs to its first await, or to its end
CommandBegins(schedules) ==
    \/ \E p \in Slots, c \in Channels, s \in schedules : setup_begins(p, c, s)
    \/ \E p \in Slots, s \in schedules : schedule_begins(p, s)
    \/ \E p \in Slots, c \in Channels : channel_begins(p, c)
    \/ \E p \in Slots, chan \in Resolutions : get_config(p, chan)

Step(schedules, rounds) ==
    \/ cog_load
    \/ CommandBegins(schedules)
    \/ \E p \in Slots : db_writes(p)
    \/ \E p \in Slots : db_reads(p)
    \/ \E p \in Slots : assigns(p)
    \/ \E chan \in Resolutions : loop_begins(chan, rounds)
    \/ \E i \in 1 .. rounds, a \in Answers : fetch_returns(i, a)
    \/ \E i \in 1 .. rounds, d \in Sends : send_returns(i, d)
    \/ minute_passes(rounds)

Next == Step(Schedules, MaxTicks)

Spec == Init /\ [][Next]_vars

-----------------------------------------------------------------------------
(* The same cog with two commands in progress together, on fewer inputs.   *)

AsyncInit == Constructed(AsyncStartTimes, AsyncOffsets, TwoSlots)

AsyncNext == Step(AsyncSchedules, MaxRounds)

SpecAsync == AsyncInit /\ [][AsyncNext]_vars

-----------------------------------------------------------------------------
(* _get_schedule called alone, on every schedule string that _check_time   *)
(* matches, at several times, on several days and in several time zones.   *)

\* the strings of a digit or two, a colon and two digits
Written ==
    {<<a, b, ":", c, d>> : a \in Digits, b \in Digits,
                           c \in Digits, d \in Digits}
        \cup {<<b, ":", c, d>> : b \in Digits, c \in Digits, d \in Digits}

\* every string _check_time matches: HH:MM and H:MM from 0:00 to 23:59, each
\* alone and followed by a newline ($ also matches before a final newline)
ValidTimes ==
    {s \in Written \cup {w \o <<"\n">> : w \in Written} : _check_time(s).value}

NormInit ==
    /\ phase = "loaded"
    /\ now \in {Combine(PyDate(FirstDay), PyTime(t)) : t \in StartTimes}
    /\ tz \in HostOffsets
    /\ build \in JsonErrors
    /\ config \in {Row(1, s) : s \in ValidTimes}
    /\ db = config
    /\ sent_today = FALSE
    /\ sent_date = None
    /\ running = TRUE
    /\ ticks = 0
    /\ tick = NoTick
    /\ fire_time = None
    /\ reply = NoReply
    /\ fetches = 0
    /\ errors = {}
    /\ trivias = {}
    /\ fails = 0
    /\ steady = TRUE
    /\ booted = {}
    /\ procs = [p \in OneSlot |-> IdleProc]
    /\ inflight = << >>

get_schedule ==
    /\ fire_time = None
    /\ fire_time' = _get_schedule
    /\ UNCHANGED <<phase, now, tz, build, db, config, sent_today, sent_date, running,
                   ticks, tick, reply, fetches, errors, trivias, fails, steady,
                   booted, procs, inflight>>

day_passes ==
    /\ fire_time # None
    /\ ticks < MaxDays
    /\ ticks' = ticks + 1
    /\ now' = now + MinutesPerDay
    /\ fire_time' = None
    /\ UNCHANGED <<phase, tz, build, db, config, sent_today, sent_date, running,
                   tick, reply, fetches, errors, trivias, fails, steady,
                   booted, procs, inflight>>

NormNext == get_schedule \/ day_passes

SpecNorm == NormInit /\ [][NormNext]_vars

-----------------------------------------------------------------------------
(* The process is stopped and started again.  Nothing of the cog survives  *)
(* but the row of the database: the coroutines in progress are dropped,    *)
(* __init__ runs again, then cog_load.                                     *)

\* a command that ran before the process stopped: what it awaited is dropped
Dropped(proc) ==
    IF proc.pc = "done" THEN proc
    ELSE [proc EXCEPT !.pc = "done", !.got = None, !.msg = "none"]

restart ==
    /\ phase = "loaded"
    /\ phase' = "constructed"
    /\ sent_today' = FALSE
    /\ sent_date' = None
    /\ config' = None
    /\ running' = FALSE
    /\ tick' = NoTick
    /\ reply' = NoReply
    /\ fails' = 0
    /\ steady' = FALSE
    /\ booted' = trivias
    /\ procs' = [p \in Slots |->
                     IF procs[p].pc = "idle" THEN IdleProc ELSE Dropped(procs[p])]
    /\ inflight' = << >>
    /\ ticks' = ticks + Len(inflight)
    /\ UNCHANGED <<now, tz, build, db, fire_time, fetches, errors, trivias>>

RestartNext == Next \/ restart

SpecRestart == Init /\ [][RestartNext]_vars

-----------------------------------------------------------------------------
(* What the claims speak of. *)

\* a schedule string that the pattern of _check_time matches
ValidSchedule(s) == ReMatch(s) # None

ConfigSet == phase = "loaded" /\ config # None

\* the hour and the minute written in a valid schedule string
WrittenHour(s) == Number(SubSeq(s, 1, Len(s) - 3))
WrittenMinute(s) == Number(SubSeq(s, Len(s) - 1, Len(s)))

\* the fire time of a valid schedule: 8 hours earlier, modulo 24 hours
FireMinute(s) ==
    ((WrittenHour(s) + HoursPerDay - OffsetHours) % HoursPerDay) * MinutesPerHour
    + WrittenMinute(s)

UtcDay(t) == t \div MinutesPerDay
UtcMinute(t) == t % MinutesPerDay

\* the step in which an iteration of trivia_loop runs its guards: it returns
\* at once, or it goes into requests.get
IterationBegins ==
    /\ phase = "loaded" /\ phase' = "loaded"
    /\ running
    /\ \/ Len(inflight') > Len(inflight)
       \/ ticks' = ticks + 1 /\ inflight' = inflight

\* the step in which an iteration of trivia_loop returns or raises
IterationEnds ==
    /\ phase = "loaded" /\ phase' = "loaded"
    /\ running
    /\ ticks' = ticks + 1

\* the step in which the command invocation p is issued
CommandBegan(p) == phase = "loaded" /\ procs[p].pc = "idle" /\ procs'[p].pc # "idle"

\* a step of a command
CommandStep == phase = "loaded" /\ phase' = "loaded" /\ procs' # procs

\* the step in which the command invocation p passes from one place to another
Passes(p, cmd, from, to) ==
    /\ phase = "loaded" /\ phase' = "loaded"
    /\ procs[p].cmd = cmd
    /\ procs[p].pc = from
    /\ procs'[p].pc = to

\* C1: with the Config fixed and every fetch and delivery succeeding, no two
\* trivia notifications are posted on the same UTC date, and once an
\* iteration has run at or after the fire time, one has been posted on that
\* date.
C1_OncePerDay ==
    (/\ ConfigSet
     /\ steady
     /\ inflight = << >>
     /\ ValidSchedule(config.schedule)) =>
        /\ \A a \in trivias, b \in trivias : UtcDay(a) = UtcDay(b) => a = b
        /\ (/\ tick.outcome \notin {"none", "unset"}
            /\ UtcMinute(now - 1) >= FireMinute(config.schedule))
           => \E t \in trivias : UtcDay(t) = UtcDay(now - 1)

\* the state of the failing run of C1: a second trivia on one UTC date
C1_TwiceOnOneDay ==
    /\ steady
    /\ \E a \in trivias, b \in trivias : a # b /\ UtcDay(a) = UtcDay(b)

\* C2: no malformed schedule string is ever written: a write by setup or by
\* schedule carries a valid HH:MM string, and the schedule of a set Config
\* and of the persisted row is a valid HH:MM string.
C2_MalformedRejected ==
    /\ \A p \in Slots :
          (procs[p].cmd \in {"setup", "schedule"} /\ procs[p].wrote # "none")
              => ValidSchedule(procs[p].args.schedule)
    /\ config # None => ValidSchedule(config.schedule)
    /\ db # None => ValidSchedule(db.schedule)

\* C3: after N consecutive iterations whose fetch answered non-200, the
\* flag is still false and exactly those N iterations posted an error;
\* when the next iteration succeeds, exactly one trivia was posted in the
\* run of N + 1 iterations and only then sent_today is true.
C3_RetryUntilSuccess ==
    /\ tick.outcome = "fetch_error" =>
          /\ fails >= 1
          /\ sent_today = FALSE
          /\ {t \in errors : t >= now - fails} = (now - fails)..(now - 1)
          /\ {t \in trivias : t >= now - fails} = {}
    /\ tick.outcome = "sent" =>
          /\ sent_today = TRUE
          /\ {t \in errors : t >= now - 1 - fails}
                = (now - 1 - fails)..(now - 2)
          /\ {t \in trivias : t >= now - 1 - fails} = {now - 1}

C3_Witness ==
    /\ tick.outcome = "sent"
    /\ fails = 2
    /\ Cardinality(errors) = 2
    /\ Cardinality(trivias) = 1
    /\ sent_today

\* C4: whatever fault an iteration meets, the timer task is still running
\* after it.
C4_FaultsContained == phase = "loaded" => running

\* the iteration reached the already-sent guard of line 84
Decided(outcome) == outcome \in {"already", "fetching"}

\* C5: at every fire decision sent_today is true only if sent_date is the
\* UTC date of the iteration, and an iteration on the UTC date after
\* sent_date clears sent_today before the guards read it.
C5_RolloverResets ==
    [][(IterationBegins /\ config # None) =>
          /\ (Decided(tick'.outcome) /\ tick'.flag)
                => sent_date = PyDate(UtcDay(now))
          /\ (/\ sent_today
              /\ sent_date # None
              /\ sent_date # PyDate(UtcDay(now)))
                => tick'.flag = FALSE]_vars

\* C6: an iteration under a valid schedule starts no send sequence before
\* the fire time, and starts one when it runs at or after the fire time
\* and no trivia was posted on its UTC date.
C6_FiresAtFireTime ==
    [][(IterationBegins /\ config # None /\ ValidSchedule(config.schedule)) =>
          LET started == fetches' # fetches \/ inflight' # inflight
              due == UtcMinute(now) >= FireMinute(config.schedule)
          IN  /\ started => due
              /\ (due /\ \A t \in trivias : UtcDay(t) # UtcDay(now))
                    => fetches' = fetches + 1]_vars

\* C7: once the Config is set, a setup command answers that the trivia is
\* already set up, inserts nothing and leaves the Config and the row alone.
C7_SetupIdempotent ==
    [][\A p \in Slots :
          (CommandBegan(p) /\ config # None /\ procs'[p].cmd = "setup") =>
              /\ procs'[p] = Answered("setup", "already_setup")
              /\ reply' = Answer("setup", "already_setup", "none")
              /\ config' = config
              /\ db' = db]_vars

\* a setup that inserted the row and answered, and a later one refused
C7_Witness ==
    /\ \E p \in Slots, q \in Slots :
          /\ procs[p].cmd = "setup" /\ procs[p].wrote = "insert"
          /\ procs[p].msg = "trivia_setup"
          /\ procs[q] = Answered("setup", "already_setup")
    /\ config = Row(2, <<"0", "8", ":", "0", "0">>)
    /\ db = config

\* C8: while the Config is unset an iteration fetches nothing, posts
\* nothing and leaves the dispatch state alone, the schedule, channel and
\* config commands answer "setup first" and write nothing, and only a
\* setup command sets the Config.
C8_UnsetIsInert ==
    [][(phase = "loaded" /\ phase' = "loaded" /\ config = None) =>
          /\ IterationBegins =>
                /\ tick'.outcome = "unset"
                /\ ticks' = ticks + 1
                /\ fetches' = fetches
                /\ errors' = errors
                /\ trivias' = trivias
                /\ sent_today' = sent_today
                /\ sent_date' = sent_date
                /\ running'
          /\ \A p \in Slots :
                (/\ CommandBegan(p)
                 /\ procs'[p].cmd \in {"schedule", "channel", "config"})
                => /\ procs'[p] = Answered(procs'[p].cmd, "setup_first")
                   /\ db' = db
                   /\ config' = None
          /\ config' # None => \E p \in Slots : Passes(p, "setup", "assign", "done")
      ]_vars

C8_Witness ==
    /\ phase = "loaded"
    /\ config = None
    /\ db = None
    /\ tick.outcome = "unset"
    /\ ticks = 2
    /\ reply.msg = "setup_first"
    /\ fetches = 0

\* C9: with the Config set, the schedule command leaves channel_id as it
\* was and the channel command leaves the schedule as it was, in the Config
\* and in the row, and neither touches sent_today or sent_date.
C9_UpdatesOneField ==
    [][\A p \in Slots :
          /\ Passes(p, "schedule", "write", "read") =>
                (db' # None /\ db'.channel_id = db.channel_id)
          /\ Passes(p, "schedule", "assign", "done") =>
                (config' # None /\ config'.channel_id = config.channel_id)
          /\ Passes(p, "channel", "write", "read") =>
                (db' # None /\ db'.schedule = db.schedule)
          /\ Passes(p, "channel", "assign", "done") =>
                (config' # None /\ config'.schedule = config.schedule)
          /\ (procs'[p] # procs[p] /\ procs'[p].cmd \in {"schedule", "channel"})
                => (sent_today' = sent_today /\ sent_date' = sent_date)]_vars

\* C10: for every schedule string that passes as valid, _get_schedule
\* returns a time of day, the one 8 hours earlier modulo 24 hours: hour
\* (HH - 8) mod 24, minute MM, whatever the date.
C10_NormalizerShifts ==
    fire_time # None =>
        /\ fire_time # ValueError
        /\ fire_time = PyTime(FireMinute(config.schedule))
        /\ fire_time.minute \in 0..(MinutesPerDay - 1)
        /\ fire_time.minute \div MinutesPerHour
              = (WrittenHour(config.schedule) + HoursPerDay - OffsetHours)
                    % HoursPerDay
        /\ fire_time.minute % MinutesPerHour = WrittenMinute(config.schedule)

\* the state of the failing run of C10: a string _check_time matches, on
\* which _get_schedule raises
C10_RaisesOnNewline ==
    /\ config.schedule = <<"0", "9", ":", "0", "0", "\n">>
    /\ _check_time(config.schedule) = PyBool(TRUE)
    /\ fire_time = ValueError

\* the UTC dates of the minutes in which an iteration begun now is sending
UtcSendDates == {PyDate(UtcDay(now + m)) : m \in SendMinutes}

\* C11: every iteration compares sent_date with the UTC date, a send stores
\* a UTC date of the iteration into sent_date, and no trivia is posted on a
\* UTC date that already has one.
C11_DatesAreUtc ==
    [][/\ (IterationBegins /\ config # None) =>
             tick'.flag = (IF sent_date = PyDate(UtcDay(now)) THEN sent_today
                           ELSE FALSE)
       /\ (IterationEnds /\ tick'.outcome = "sent") =>
             /\ sent_date' \in UtcSendDates
             /\ \A t \in trivias : UtcDay(t) # UtcDay(now)]_vars

\* C12: a restart leaves sent_today false and sent_date None, and an
\* iteration posts a trivia on a UTC date that already has one only if the
\* process was restarted since that one was posted.
C12_DuplicateOnlyAcrossRestart ==
    [][/\ (phase = "loaded" /\ phase' = "constructed") =>
             (sent_today' = FALSE /\ sent_date' = None)
       /\ (IterationEnds /\ tick'.outcome = "sent") =>
             \A t \in trivias \ booted : UtcDay(t) # UtcDay(now)]_vars

\* two trivias on one UTC date of a host on UTC, a restart between them
C12_DuplicateAcrossRestart ==
    /\ tz = 0
    /\ phase = "loaded"
    /\ \E t \in booted : \E u \in trivias \ booted : UtcDay(t) = UtcDay(u)

\* an iteration is awaiting the delivery of the trivia it fetched with a 200
Delivering ==
    \E i \in 1 .. Len(inflight) :
        /\ inflight[i].pc = "sending"
        /\ inflight[i].post = "trivia"
        /\ inflight[i].status = HttpOk

\* the date of the iteration in progress: the UTC date of the minute in
\* which it ran its guards
TickDate == PyDate(UtcDay(now))

\* C13: sent_date changes only when an iteration that fetched the trivia
\* has delivered it, which sets it to the date of that iteration and sets
\* sent_today; any other change of sent_today is the rollover clearing it
\* in an iteration; every other iteration and every command leaves both.
C13_OnlyTheTickMutates ==
    [][/\ sent_date' # sent_date =>
             /\ IterationEnds
             /\ Delivering
             /\ tick'.outcome = "sent"
             /\ trivias' = trivias \cup {now}
             /\ sent_today'
       /\ sent_today' # sent_today =>
             \/ IterationEnds /\ tick'.outcome = "sent" /\ sent_today'
             \/ /\ IterationBegins
                /\ ~sent_today'
                /\ sent_date' = sent_date
       /\ (IterationEnds /\ tick'.outcome # "sent") => sent_date' = sent_date
       /\ (IterationEnds /\ tick'.outcome = "sent") =>
             (sent_today' /\ sent_date' = TickDate)
       /\ CommandStep => (sent_today' = sent_today /\ sent_date' = sent_date)
      ]_vars

\* the state of the failing run of C13: the iteration that delivered the
\* trivia has stored a date that is not its own
C13_StoresAnotherDate ==
    /\ tick.outcome = "sent"
    /\ sent_today
    /\ now - 1 \in trivias
    /\ sent_date # PyDate(UtcDay(now - 1))

\* C14: whenever an iteration is inside its fetch and a command could be
\* issued, the command can start.
C14_CommandsRunDuringFetch ==
    (phase = "loaded" /\ Blocked /\ \E p \in Slots : Free(p))
        => ENABLED CommandBegins(AsyncSchedules)

\* db.insert calls made, and "Trivia setup" answers given, so far
Inserts == Cardinality({p \in Slots : procs[p].wrote = "insert"})
SetupsReported ==
    Cardinality({p \in Slots : procs[p].msg = "trivia_setup"})

\* C15: whatever the interleaving of the setup invocations, at most one
\* insert is made and at most one invocation answers "Trivia setup".
C15_OneInsert == Inserts <= 1 /\ SetupsReported <= 1

\* the minutes of the iterations that passed the guard of line 84 and
\* posted, an error or a trivia
Posted == errors \cup trivias

\* C16: the iterations of trivia_loop never overlap: at most one is in
\* progress, and an iteration passes the already-sent guard only when none
\* is in progress and none passed it earlier on the same UTC date.
C16_TicksNeverOverlap ==
    [][/\ Len(inflight') <= 1
       /\ (IterationBegins /\ Len(inflight') > Len(inflight)) =>
             /\ inflight = << >>
             /\ \A t \in Posted : UtcDay(t) # UtcDay(now)]_vars

\* C16 as amended: at most one iteration is in progress, and none is past
\* the already-sent guard while sent_today is true: an iteration passes
\* the guard only when the ones before it have returned or raised and
\* none of them has delivered since the flag was last cleared.
C16_OneTickAtATime ==
    /\ Len(inflight) <= 1
    /\ inflight # << >> => ~sent_today

\* a second iteration past the guard on the same UTC date, suspended on its
\* delivery, the first one has posted its error and returned
C16_Witness ==
    /\ ticks = 1
    /\ errors # {}
    /\ \A t \in errors : UtcDay(t) = UtcDay(now)
    /\ Len(inflight) = 1
    /\ inflight[1].pc = "sending"
    /\ inflight[1].post = "trivia"
    /\ ~sent_today

WholeConfig(c) ==
    \/ c = None
    \/ \E ch \in Channels, s \in AsyncSchedules : c = Row(ch, s)

\* C17: self.config is None or a whole row, never goes from a row to None,
\* and an iteration that starts its send sequence took channel_id and
\* schedule from the one value self.config has at that step.
C17_ConfigWhole ==
    [][/\ WholeConfig(config')
       /\ config # None => config' # None
       /\ Len(inflight') > Len(inflight) =>
             /\ config # None
             /\ inflight'[Len(inflight')].used = config]_vars

\* an iteration in progress that read the row a command has since replaced
C17_Witness ==
    /\ Len(inflight) = 1
    /\ config # None
    /\ inflight[1].used # config
    /\ \E p \in Slots : procs[p].pc = "done" /\ procs[p].wrote = "update"

\* C18: when a schedule command and a channel command have both written
\* and answered, the row in the database and self.config hold the new
\* channel and the new schedule.
C18_NoLostUpdate ==
    \A p \in Slots, q \in Slots :
        ( /\ procs[p].pc = "done" /\ procs[p].cmd = "schedule"
          /\ procs[p].wrote = "update"
          /\ procs[q].pc = "done" /\ procs[q].cmd = "channel"
          /\ procs[q].wrote = "update" )
        => LET both == Row(procs[q].args.channel_id, procs[p].args.schedule)
           IN  db = both /\ config = both

\* C19: once a trivia was posted on a UTC date, no iteration on that date
\* starts a send sequence, whatever commands ran in between.
C19_NoSecondSend ==
    [][(IterationBegins /\ \E t \in trivias : UtcDay(t) = UtcDay(now)) =>
          /\ fetches' = fetches
          /\ inflight' = inflight]_vars

\* C20: whenever the cog is loaded and no command is suspended,
\* self.config is the row of the database.
C20_CacheCoherent ==
    (phase = "loaded" /\ \A p \in Slots : procs[p].pc \in {"idle", "done"})
        => config = db

-----------------------------------------------------------------------------
(* The same program on a host whose local clock is UTC: there the local    *)
(* date that trivia_loop compares and stores is the UTC date, and          *)
(* C5_RolloverResets, C11_DatesAreUtc and C19_NoSecondSend hold.           *)

SpecUtc == Init /\ tz = 0 /\ [][Next]_vars
====
